---------------------------- MODULE Spec2Model ----------------------------
(***************************************************************************)
(* Conversational RAG question answering (app/rag_chain.py, database.py,   *)
(* document_processor.py, vector_store.py, config.py).                     *)
(*                                                                         *)
(* A text is a sequence of characters, each character a one-letter string. *)
(* A literal of the source that no operation looks into (a canned answer,  *)
(* an error message) is kept as a single element of such a sequence.       *)
(*                                                                         *)
(* Six specifications share the module:                                    *)
(*   Spec        the /ask and /history handlers running as concurrent      *)
(*               requests against the conversations collection;            *)
(*   SpecAnswer  answer_question, one request at a time, on the raw texts  *)
(*               a model can return;                                       *)
(*   SpecParse   RAGChain._parse_llm_response on bounded raw texts;        *)
(*   SpecChunk   DocumentProcessor.chunk_text, one loop iteration a step;  *)
(*   SpecReply   _extract_references and _generate_suggestions on bounded  *)
(*               questions and retrieval results;                          *)
(*   SpecStores  /upload, /clear and similarity_search over the four       *)
(*               stores.                                                   *)
(***************************************************************************)
EXTENDS Integers, Sequences, FiniteSets, TLC

VARIABLES
    config,         \* Config: the values read from the environment
    conversations,  \* MongoDB.conversations: the documents, in insertion order
    collection,     \* VectorStore.collection: the indexed chunks
    clock,          \* datetime.utcnow(), as a logical clock
    pc,             \* per request worker: the orchestrator step about to run
    req,            \* per request worker: the locals of the running handler
    ps,             \* locals of one _parse_llm_response call
    ck,             \* locals of one chunk_text call
    provider,       \* what openai.chat.completions.create can do in this run
    rp,             \* locals of one _extract_references / _generate_suggestions call
    documents,      \* MongoDB.documents: the metadata of the uploads
    chunks,         \* MongoDB.chunks: the stored chunks
    up              \* locals of the running /upload, /clear or search call

vars == <<config, conversations, collection, clock, pc, req, ps, ck,
          provider, rp, documents, chunks, up>>

NONE == "None"

Min(a, b) == IF a <= b THEN a ELSE b
Max(a, b) == IF a >= b THEN a ELSE b

----------------------------------------------------------------------------
(* Python str and list primitives.                                         *)

\* the characters str.strip() removes, as far as the models' alphabet goes
Whitespace == {" ", "\n", "\t"}

\* s[i:] for i >= 0
DropFirst(s, i) == SubSeq(s, Min(i, Len(s)) + 1, Len(s))

\* s[-n:] : for n > 0 the last n elements; -0 is 0, so s[-0:] is s[0:], all of s
LastSlice(s, n) == IF n = 0 THEN s ELSE SubSeq(s, Max(Len(s) - n, 0) + 1, Len(s))

\* s[:n] for n >= 0
FirstSlice(s, n) == SubSeq(s, 1, Min(n, Len(s)))

\* s.startswith(prefix)
StartsWith(s, prefix) ==
    /\ Len(prefix) <= Len(s)
    /\ SubSeq(s, 1, Len(prefix)) = prefix

\* s.endswith(suffix)
EndsWith(s, suffix) ==
    /\ Len(suffix) <= Len(s)
    /\ SubSeq(s, Len(s) - Len(suffix) + 1, Len(s)) = suffix

\* sub in s
Contains(s, sub) ==
    \E i \in 0..(Len(s) - Len(sub)) : SubSeq(s, i + 1, i + Len(sub)) = sub

\* s.strip()
Strip(s) ==
    LET keep == {i \in 1..Len(s) : s[i] \notin Whitespace}
    IN  IF keep = {} THEN <<>>
        ELSE SubSeq(s, CHOOSE i \in keep : \A j \in keep : i <= j,
                       CHOOSE i \in keep : \A j \in keep : i >= j)

\* s.split(sep) for a one-character sep: always at least one piece
RECURSIVE Split(_, _)
Split(s, sep) ==
    LET hits == {i \in 1..Len(s) : s[i] = sep}
    IN  IF hits = {} THEN <<s>>
        ELSE LET k == CHOOSE i \in hits : \A j \in hits : i <= j
             IN  <<SubSeq(s, 1, k - 1)>> \o Split(SubSeq(s, k + 1, Len(s)), sep)

\* "".join(parts)
RECURSIVE Concat(_)
Concat(parts) ==
    IF parts = <<>> THEN <<>> ELSE Head(parts) \o Concat(Tail(parts))

\* all sequences over S of length lo..hi
SeqsOf(S, lo, hi) == UNION {[1..n -> S] : n \in lo..hi}

----------------------------------------------------------------------------
(* RAGChain._parse_llm_response                                            *)

ANSWER_MARK == <<"A", "N", "S", "W", "E", "R", ":">>

REASONING_MARK == <<"R", "E", "A", "S", "O", "N", "I", "N", "G", ":">>

FALLBACK_DERIVED == <<"Answer derived from document analysis.">>

FALLBACK_CONTEXT == <<"Based on the provided document context.">>

\* a loop body that cuts the REASONING: marker one character short
ParseLineShortCut(st, rawline) ==
    LET line == Strip(rawline)
    IN  IF StartsWith(line, ANSWER_MARK)
        THEN [answer |-> Strip(DropFirst(line, 7)),
              reasoning |-> st.reasoning, current_section |-> "answer"]
        ELSE IF StartsWith(line, REASONING_MARK)
        THEN [answer |-> st.answer,
              reasoning |-> Strip(DropFirst(line, 9)), current_section |-> "reasoning"]
        ELSE IF st.current_section = "answer" /\ line # <<>>
        THEN [st EXCEPT !.answer = @ \o <<" ">> \o line]
        ELSE IF st.current_section = "reasoning" /\ line # <<>>
        THEN [st EXCEPT !.reasoning = @ \o <<" ">> \o line]
        ELSE st

\* one iteration of the for loop: st is (answer, reasoning, current_section)
ParseLine(st, rawline) ==
    LET line == Strip(rawline)
    IN  IF StartsWith(line, ANSWER_MARK)
        THEN [answer |-> Strip(DropFirst(line, 7)),
              reasoning |-> st.reasoning, current_section |-> "answer"]
        ELSE IF StartsWith(line, REASONING_MARK)
        THEN [answer |-> st.answer,
              reasoning |-> Strip(DropFirst(line, 10)), current_section |-> "reasoning"]
        ELSE IF st.current_section = "answer" /\ line # <<>>
        THEN [st EXCEPT !.answer = @ \o <<" ">> \o line]
        ELSE IF st.current_section = "reasoning" /\ line # <<>>
        THEN [st EXCEPT !.reasoning = @ \o <<" ">> \o line]
        ELSE st

\* the for loop over the lines
RECURSIVE ParseScan(_, _)
ParseScan(lines, st) ==
    IF lines = <<>> THEN st
    ELSE ParseScan(Tail(lines), ParseLine(st, Head(lines)))

\* a fallback keyed on which markers were seen, not on what was captured
ParseFallbackByMarker(response, st) ==
    IF st.current_section = NONE
    THEN [answer |-> Strip(response), reasoning |-> Strip(FALLBACK_DERIVED)]
    ELSE IF st.reasoning = <<>>
    THEN [answer |-> Strip(st.answer), reasoning |-> Strip(FALLBACK_CONTEXT)]
    ELSE [answer |-> Strip(st.answer), reasoning |-> Strip(st.reasoning)]

\* the fallback block and the return
ParseFallback(response, st) ==
    IF st.answer = <<>> /\ st.reasoning = <<>>
    THEN [answer |-> Strip(response), reasoning |-> Strip(FALLBACK_DERIVED)]
    ELSE IF st.reasoning = <<>>
    THEN [answer |-> Strip(st.answer), reasoning |-> Strip(FALLBACK_CONTEXT)]
    ELSE [answer |-> Strip(st.answer), reasoning |-> Strip(st.reasoning)]

\* _parse_llm_response(response) for a str response
ParseLLMResponse(response) ==
    ParseFallback(response,
        ParseScan(Split(response, "\n"),
                  [answer |-> <<>>, reasoning |-> <<>>, current_section |-> NONE]))

----------------------------------------------------------------------------
(* DocumentProcessor: the tokenizer, _get_overlap_text and chunk_text      *)

Letters == {"a", "b"}

Digits == {"1", "2"}

Punct == {"."}

\* how many elements of s, from index i on, lie in class
RECURSIVE RunLen(_, _, _)
RunLen(s, i, class) ==
    IF i > Len(s) \/ s[i] \notin class THEN 0 ELSE 1 + RunLen(s, i + 1, class)

\* Length of the first piece the cl100k_base split pattern cuts from a
\* non-empty s, over the alphabet letters / digits / "." / blank:
\*   [^\r\n\p{L}\p{N}]?\p{L}+ | \p{N}{1,3} | ?[^\s\p{L}\p{N}]+ | \s+(?!\S) | \s+
\* A blank joins the word or the punctuation that follows it, never a number.
PieceLen(s) ==
    LET c == s[1]
        ws == RunLen(s, 1, Whitespace)
    IN  IF c \notin (Letters \cup Digits \cup {"\n", "\r"}) /\ Len(s) >= 2 /\ s[2] \in Letters
        THEN 1 + RunLen(s, 2, Letters)
        ELSE IF c \in Letters THEN RunLen(s, 1, Letters)
        ELSE IF c \in Digits THEN Min(RunLen(s, 1, Digits), 3)
        ELSE IF c = " " /\ Len(s) >= 2 /\ s[2] \in Punct
        THEN 1 + RunLen(s, 2, Punct)
        ELSE IF c \in Punct THEN RunLen(s, 1, Punct)
        ELSE IF ws = Len(s) THEN ws
        ELSE IF ws >= 2 THEN ws - 1
        ELSE 1

\* self.encoding.encode(text): the token sequence, each token written as the
\* text it stands for.  Every piece of the split pattern is one vocabulary
\* entry for the words used here (single letters, numbers of up to 3 digits).
RECURSIVE Encode(_)
Encode(text) ==
    IF text = <<>> THEN <<>>
    ELSE LET n == PieceLen(text)
         IN  <<SubSeq(text, 1, n)>> \o Encode(SubSeq(text, n + 1, Len(text)))

\* self.encoding.decode(tokens)
Decode(tokens) == Concat(tokens)

\* count_tokens(text)
count_tokens(text) == Len(Encode(text))

\* _get_overlap_text(text, overlap_tokens)
GetOverlapText(text, overlap_tokens) ==
    LET tokens == Encode(text)
    IN  IF Len(tokens) <= overlap_tokens THEN text
        ELSE Decode(LastSlice(tokens, overlap_tokens))

\* str(i) for i >= 0
DigitChar(d) == <<"0", "1", "2", "3", "4", "5", "6", "7", "8", "9">>[d + 1]

RECURSIVE IntToStr(_)
IntToStr(i) ==
    IF i < 10 THEN <<DigitChar(i)>> ELSE IntToStr(i \div 10) \o <<DigitChar(i % 10)>>

\* f"{document_id}_chunk_{chunk_index}"
ChunkId(document_id, chunk_index) ==
    document_id \o <<"_", "c", "h", "u", "n", "k", "_">> \o IntToStr(chunk_index)

\* _get_page_for_text when a page mapping is given, else None
PageFor(page_mapping) == IF page_mapping = NONE THEN NONE ELSE 1

\* the DocumentChunk built at an emission or at the final flush
MakeChunk(document_id, filename, chunk_index, current_chunk, page_mapping) ==
    [document_id |-> document_id,
     filename    |-> filename,
     chunk_id    |-> ChunkId(document_id, chunk_index),
     chunk_text  |-> Strip(current_chunk),
     page_number |-> PageFor(page_mapping)]

\* sentence = sentence.strip(); ...; sentence += "."
Sentence(piece) == Strip(piece) \o <<".">>

\* a seeding that forgets the sentence that did not fit
SeedChunkOverlapOnly(overlap_text, sentence) == overlap_text

\* current_chunk = overlap_text + " " + sentence
SeedChunk(overlap_text, sentence) == overlap_text \o <<" ">> \o sentence

\* current_chunk += " " + sentence
AppendSentence(current_chunk, sentence) == current_chunk \o <<" ">> \o sentence

\* an index that is not advanced after an emission
NextChunkIndexStuck(chunk_index) == chunk_index

\* chunk_index += 1
NextChunkIndex(chunk_index) == chunk_index + 1

\* the test that closes the current chunk before a sentence is added
Overflows(current_tokens, sentence_tokens, chunk_size, current_chunk) ==
    current_tokens + sentence_tokens > chunk_size /\ current_chunk # <<>>

----------------------------------------------------------------------------
(* Values of the variables a specification does not use.                   *)

Procs == {"w1", "w2"}

DEFAULT_CHUNK_SIZE == 400

DEFAULT_CHUNK_OVERLAP == 50

DEFAULT_MAX_HISTORY_TURNS == 5

DefaultConfig ==
    [CHUNK_SIZE        |-> DEFAULT_CHUNK_SIZE,
     CHUNK_OVERLAP     |-> DEFAULT_CHUNK_OVERLAP,
     MAX_HISTORY_TURNS |-> DEFAULT_MAX_HISTORY_TURNS]

PipelineOff ==
    /\ conversations = <<>>
    /\ collection = <<>>
    /\ clock = 0
    /\ pc = [p \in Procs |-> "Off"]
    /\ req = [p \in Procs |-> [kind |-> "off"]]
    /\ provider = {}

ParseOff == ps = [phase |-> "off"]

ChunkOff == ck = [phase |-> "off"]

ReplyOff == rp = [phase |-> "off"]

StoresOff ==
    /\ documents = <<>>
    /\ chunks = <<>>
    /\ up = [phase |-> "off"]

----------------------------------------------------------------------------
(* RAGChain: prompt, references, suggestions, the canned responses.        *)

SNIPPET_LEN == 150

HISTORY_IN_PROMPT == 3

MAX_SUGGESTIONS == 3

MAX_TOPICS == 2

MIN_TOPIC_LEN == 4

\* 'A'..'Z' as far as the models' alphabet goes, for str.lower()
LowerChar(c) ==
    CASE c = "W" -> "w"
      [] c = "H" -> "h"
      [] c = "Y" -> "y"
      [] c = "A" -> "a"
      [] c = "T" -> "t"
      [] c = "E" -> "e"
      [] c = "N" -> "n"
      [] OTHER -> c

\* s.lower()
Lower(s) == [i \in 1..Len(s) |-> LowerChar(s[i])]

\* s.split(): the maximal runs of non-whitespace characters
RECURSIVE SplitWords(_)
SplitWords(s) ==
    IF s = <<>> THEN <<>>
    ELSE IF s[1] \in Whitespace THEN SplitWords(Tail(s))
    ELSE LET n == RunLen(s, 1, {s[i] : i \in 1..Len(s)} \ Whitespace)
         IN  <<SubSeq(s, 1, n)>> \o SplitWords(SubSeq(s, n + 1, Len(s)))

\* _build_context_prompt: the parts that "\n".join puts together
BuildContextPrompt(question, history, retrieved_chunks) ==
    LET shown == LastSlice(history, HISTORY_IN_PROMPT)
    IN  <<[part |-> "preamble"]>>
        \o (IF history # <<>>
            THEN <<[part |-> "history",
                    turns |-> [i \in 1..Len(shown) |->
                                  [Q |-> shown[i].question, A |-> shown[i].answer]]]>>
            ELSE <<>>)
        \o (IF retrieved_chunks # <<>>
            THEN <<[part |-> "documents",
                    blocks |-> [i \in 1..Len(retrieved_chunks) |->
                                  [label    |-> i,
                                   filename |-> retrieved_chunks[i].metadata.filename,
                                   page     |-> retrieved_chunks[i].metadata.page_number,
                                   content  |-> retrieved_chunks[i].content]]]>>
            ELSE <<>>)
        \o <<[part |-> "question", question |-> question],
             [part |-> "instructions"]>>

\* round(score, 3), the score in ten-thousandths, the result in thousandths
Round3(score) == (score + 5) \div 10

\* an extraction that also cuts a text of exactly 150 characters
SnippetCutFrom150(content) ==
    IF Len(content) >= SNIPPET_LEN
    THEN FirstSlice(content, SNIPPET_LEN) \o <<".", ".", ".">>
    ELSE content

\* the snippet of one chunk
Snippet(content) ==
    IF Len(content) > SNIPPET_LEN
    THEN FirstSlice(content, SNIPPET_LEN) \o <<".", ".", ".">>
    ELSE content

\* _extract_references(retrieved_chunks, answer)
ExtractReferences(retrieved_chunks, answer) ==
    [i \in 1..Len(retrieved_chunks) |->
        [document        |-> retrieved_chunks[i].metadata.filename,
         page            |-> retrieved_chunks[i].metadata.page_number,
         chunk_id        |-> retrieved_chunks[i].chunk_id,
         content_snippet |-> Snippet(retrieved_chunks[i].content),
         relevance_score |-> Round3(retrieved_chunks[i].score)]]

\* the words longer than 4 characters of all the snippets, lowercased
Topics(references) ==
    UNION {LET words == SplitWords(Lower(references[i].content_snippet))
           IN  {words[j] : j \in {k \in 1..Len(words) : Len(words[k]) > MIN_TOPIC_LEN}}
           : i \in 1..Len(references)}

\* list(topics): a set is listed in an order the code does not fix
Listings(S) ==
    {q \in [1..Cardinality(S) -> S] : \A i, j \in 1..Cardinality(S) : i # j => q[i] # q[j]}

\* suggestions returned without the final cut to three
GenerateSuggestionsUncut(question, answer, references) ==
    LET q == Lower(question)
        fixed ==
            (IF Contains(q, <<"w", "h", "a", "t">>)
             THEN <<<<"How does this relate to other aspects mentioned in the documents?">>>>
             ELSE <<>>)
            \o (IF Contains(q, <<"w", "h", "y">>)
                THEN <<<<"What are the implications of this?">>>> ELSE <<>>)
            \o (IF Contains(q, <<"w", "h", "e", "n">>)
                THEN <<<<"What happened before or after this?">>>> ELSE <<>>)
    IN  {fixed \o [i \in 1..Min(MAX_TOPICS, Len(order)) |->
                      <<"Tell me more about ">> \o order[i]]
            : order \in Listings(Topics(references))}

\* _generate_suggestions(question, answer, references): every list it can return
GenerateSuggestions(question, answer, references) ==
    LET q == Lower(question)
        fixed ==
            (IF Contains(q, <<"w", "h", "a", "t">>)
             THEN <<<<"How does this relate to other aspects mentioned in the documents?">>>>
             ELSE <<>>)
            \o (IF Contains(q, <<"w", "h", "y">>)
                THEN <<<<"What are the implications of this?">>>> ELSE <<>>)
            \o (IF Contains(q, <<"w", "h", "e", "n">>)
                THEN <<<<"What happened before or after this?">>>> ELSE <<>>)
    IN  {FirstSlice(fixed \o [i \in 1..Min(MAX_TOPICS, Len(order)) |->
                                  <<"Tell me more about ">> \o order[i]],
                    MAX_SUGGESTIONS)
            : order \in Listings(Topics(references))}

\* the response of the empty-evidence branch
EmptyEvidenceResponse(user_id) ==
    [answer |-> <<"I couldn't find relevant information in the uploaded documents to answer your question.">>,
     reasoning |-> <<"No documents were found that match your query. Please ensure you have uploaded relevant documents.">>,
     references |-> <<>>,
     suggestions |-> << <<"Try rephrasing your question">>,
                        <<"Upload relevant documents first">> >>,
     conversation_id |-> user_id]

ERROR_PREFIX == <<"I encountered an error while processing your question: ">>

\* the response of the except branch, message being str(e)
GenerationFailedResponse(user_id, message) ==
    [answer |-> ERROR_PREFIX \o message,
     reasoning |-> <<"There was a technical issue with the language model.">>,
     references |-> <<>>,
     suggestions |-> << <<"Please try asking your question again">> >>,
     conversation_id |-> user_id]

\* the response of the success path
AnswerResponse(answer, reasoning, references, suggestions, user_id) ==
    [answer |-> answer, reasoning |-> reasoning, references |-> references,
     suggestions |-> suggestions, conversation_id |-> user_id]

\* a turn that loses the references
MakeTurnNoReferences(question, answer, references, timestamp) ==
    [question |-> question, answer |-> answer,
     references |-> <<>>, timestamp |-> timestamp]

\* ConversationTurn(question, answer, references, timestamp)
MakeTurn(question, answer, references, timestamp) ==
    [question |-> question, answer |-> answer,
     references |-> references, timestamp |-> timestamp]

\* an evidence test that never takes the short cut
NoEvidenceNever(retrieved_chunks) == FALSE

\* if not retrieved_chunks
NoEvidence(retrieved_chunks) == retrieved_chunks = <<>>

\* an except clause that lets a failure of the parse through
CaughtProviderOnly(exc) == exc.type # "AttributeError"

\* except Exception: every failure raised inside the try block
Caught(exc) == exc.type \in {"APITimeoutError", "APIError", "AttributeError"}

\* str(e) of the AttributeError that None.split raises
NONE_SPLIT_MESSAGE == <<"'NoneType' object has no attribute 'split'">>

----------------------------------------------------------------------------
(* MongoDB: the conversations collection.                                  *)

\* find_one({"user_id": user_id}): the position of the first match, 0 for None
FindOne(docs, user_id) ==
    LET hits == {i \in 1..Len(docs) : docs[i].user_id = user_id}
    IN  IF hits = {} THEN 0 ELSE CHOOSE i \in hits : \A j \in hits : i <= j

\* get_conversation_history(user_id, limit); limit is <<>> for None, <<n>> for n
GetConversationHistory(docs, user_id, limit) ==
    LET lim == IF limit = <<>> THEN config.MAX_HISTORY_TURNS ELSE limit[1]
        i == FindOne(docs, user_id)
    IN  IF i = 0 THEN <<>> ELSE LastSlice(docs[i].conversations, lim)

\* update_one on a matching document: $push and $set, atomic on that document
PushTurn(docs, i, turn, now) ==
    [docs EXCEPT ![i] = [@ EXCEPT !.conversations = Append(@, turn),
                                  !.last_updated = now]]

\* update_one with upsert=True when the query matched nothing: a new document
InsertHistory(docs, user_id, turn, now) ==
    Append(docs, [user_id |-> user_id, conversations |-> <<turn>>,
                  last_updated |-> now])

----------------------------------------------------------------------------
(* VectorStore: similarity_search.                                         *)

\* cosine distances of the hits, by rank, in ten-thousandths
RankDistance(rank) == <<874, 5996, 7003, 8121>>[rank]

\* the orders in which the index can return n of its entries
Rankings(n, size) ==
    {q \in [1..n -> 1..size] : \A i, j \in 1..n : i # j => q[i] # q[j]}

\* similarity_search(query, top_k): every result it can return.  A failed
\* embedding gives []; else the index ranks min(top_k, size) entries.
SimilaritySearch(index, query, top_k) ==
    {<<>>} \cup
    {[i \in 1..Len(order) |->
        [chunk_id |-> index[order[i]].id,
         content  |-> index[order[i]].document,
         metadata |-> index[order[i]].metadata,
         score    |-> 10000 - RankDistance(i)]]
        : order \in Rankings(Min(top_k, Len(index)), Len(index))}

----------------------------------------------------------------------------
(* SpecChunk: chunk_text, one loop iteration per step.                     *)

MaxPieces == 4

MaxChunkSize == 8

MaxOverlap == 2

\* what the input texts are made of: sentences with and without their period,
\* a number, an empty sentence
TextPieces ==
    {<<"a", ".">>, <<" ", "1", ".">>, <<".">>, <<" ", "b">>}

ChunkTexts == {Concat(q) : q \in SeqsOf(TextPieces, 0, MaxPieces)}

DOC_ID == <<"d", "7">>

\* lines 50-58: the locals before the loop
ChunkBegin ==
    /\ ck.phase = "start"
    /\ ck' = [ck EXCEPT !.phase = "loop",
                        !.sentences = Split(ck.text, "."),
                        !.i = 1,
                        !.current_chunk = <<>>,
                        !.current_tokens = 0,
                        !.chunk_index = 0,
                        !.chunks = <<>>]
    /\ UNCHANGED <<config, conversations, collection, clock, pc, req, ps, provider, rp, documents, chunks, up>>

\* lines 61-63: an empty sentence is skipped
ChunkSkip ==
    /\ ck.phase = "loop"
    /\ ck.i <= Len(ck.sentences)
    /\ Strip(ck.sentences[ck.i]) = <<>>
    /\ ck' = [ck EXCEPT !.i = @ + 1]
    /\ UNCHANGED <<config, conversations, collection, clock, pc, req, ps, provider, rp, documents, chunks, up>>

\* lines 69-88: the sentence does not fit; emit the chunk, seed the next one
ChunkEmit ==
    /\ ck.phase = "loop"
    /\ ck.i <= Len(ck.sentences)
    /\ Strip(ck.sentences[ck.i]) # <<>>
    /\ LET sentence == Sentence(ck.sentences[ck.i])
           sentence_tokens == count_tokens(sentence)
           overlap_text == GetOverlapText(ck.current_chunk, config.CHUNK_OVERLAP)
           seeded == SeedChunk(overlap_text, sentence)
       IN  /\ Overflows(ck.current_tokens, sentence_tokens,
                        config.CHUNK_SIZE, ck.current_chunk)
           /\ ck' = [ck EXCEPT
                        !.chunks = Append(@, MakeChunk(ck.document_id, ck.filename,
                                       ck.chunk_index, ck.current_chunk, ck.page_mapping)),
                        !.raws = Append(@, ck.current_chunk),
                        !.seeds = Append(@, ck.overlap_text),
                        !.overlap_text = overlap_text,
                        !.current_chunk = seeded,
                        !.current_tokens = count_tokens(seeded),
                        !.chunk_index = NextChunkIndex(@),
                        !.i = @ + 1]
    /\ UNCHANGED <<config, conversations, collection, clock, pc, req, ps, provider, rp, documents, chunks, up>>

\* lines 89-91: the sentence joins the current chunk
ChunkAppend ==
    /\ ck.phase = "loop"
    /\ ck.i <= Len(ck.sentences)
    /\ Strip(ck.sentences[ck.i]) # <<>>
    /\ LET sentence == Sentence(ck.sentences[ck.i])
           sentence_tokens == count_tokens(sentence)
       IN  /\ ~Overflows(ck.current_tokens, sentence_tokens,
                         config.CHUNK_SIZE, ck.current_chunk)
           /\ ck' = [ck EXCEPT
                        !.current_chunk = AppendSentence(@, sentence),
                        !.current_tokens = @ + sentence_tokens,
                        !.i = @ + 1]
    /\ UNCHANGED <<config, conversations, collection, clock, pc, req, ps, provider, rp, documents, chunks, up>>

\* lines 93-108: the last chunk, if it has content, and the return
ChunkFinish ==
    /\ ck.phase = "loop"
    /\ ck.i > Len(ck.sentences)
    /\ ck' = IF Strip(ck.current_chunk) # <<>>
             THEN [ck EXCEPT
                        !.phase = "done",
                        !.chunks = Append(@, MakeChunk(ck.document_id, ck.filename,
                                       ck.chunk_index, ck.current_chunk, ck.page_mapping)),
                        !.raws = Append(@, ck.current_chunk),
                        !.seeds = Append(@, ck.overlap_text)]
             ELSE [ck EXCEPT !.phase = "done"]
    /\ UNCHANGED <<config, conversations, collection, clock, pc, req, ps, provider, rp, documents, chunks, up>>

\* the configurations and the inputs of chunk_text
InitChunk ==
    /\ PipelineOff
    /\ ParseOff
    /\ ReplyOff
    /\ StoresOff
    /\ config \in {[DefaultConfig EXCEPT !.CHUNK_SIZE = cs, !.CHUNK_OVERLAP = ov] :
                        cs \in 1..MaxChunkSize, ov \in 0..MaxOverlap}
    /\ ck \in {[phase |-> "start", text |-> t, document_id |-> DOC_ID,
                filename |-> "f.txt", page_mapping |-> NONE,
                sentences |-> <<>>, i |-> 0, current_chunk |-> <<>>,
                current_tokens |-> 0, chunk_index |-> 0, chunks |-> <<>>,
                overlap_text |-> <<>>, raws |-> <<>>, seeds |-> <<>>] :
                    t \in ChunkTexts}

NextChunk == ChunkBegin \/ ChunkSkip \/ ChunkEmit \/ ChunkAppend \/ ChunkFinish

SpecChunk == InitChunk /\ [][NextChunk]_vars

----------------------------------------------------------------------------
(* Properties of chunk_text.                                               *)

\* the non-empty stripped sentences of a text, in order
RECURSIVE NonEmptyStripped(_)
NonEmptyStripped(pieces) ==
    IF pieces = <<>> THEN <<>>
    ELSE (IF Strip(Head(pieces)) = <<>> THEN <<>> ELSE <<Strip(Head(pieces))>>)
         \o NonEmptyStripped(Tail(pieces))

SentencesOf(text) == NonEmptyStripped(Split(text, "."))

\* chunk k of the result without the overlap prefix copied from chunk k-1
NonOverlapPortion(k) ==
    DropFirst(ck.chunks[k].chunk_text, Len(Strip(ck.seeds[k])))

\* the largest token count of one sentence of the input, its period included
LongestSentenceTokens ==
    LET ss == SentencesOf(ck.text)
        counts == {count_tokens(ss[j] \o <<".">>) : j \in 1..Len(ss)}
    IN  IF counts = {} THEN 0 ELSE CHOOSE m \in counts : \A c \in counts : c <= m

\* C6: the k-th chunk (0-based) of a document carries the chunk_id
\* "{document_id}_chunk_{k}": the ids run from 0 to N-1 without gap or repeat,
\* in list order, at every point of the call.
C6_ChunkIdsContiguous ==
    ck.phase \in {"loop", "done"} =>
        \A k \in 1..Len(ck.chunks) :
            ck.chunks[k].chunk_id =
                ck.document_id \o <<"_", "c", "h", "u", "n", "k", "_">>
                    \o <<(<<"0", "1", "2", "3", "4", "5", "6", "7", "8", "9">>)[k]>>

\* a finished call that produced at least three chunks
C6_Witness == ck.phase = "done" /\ Len(ck.chunks) >= 3

\* C7: every chunk is its overlap prefix (a suffix of the predecessor's text,
\* empty for the first chunk) followed by its own portion, and the portions,
\* concatenated in chunk order, are exactly the non-empty stripped sentences
\* of the input, each once and in the original order.
C7_ChunkCoverage ==
    ck.phase = "done" =>
        /\ Len(ck.seeds) = Len(ck.chunks)
        /\ \A k \in 1..Len(ck.chunks) :
              /\ StartsWith(ck.chunks[k].chunk_text, Strip(ck.seeds[k]))
              /\ k = 1 => ck.seeds[k] = <<>>
              /\ k > 1 => /\ ck.seeds[k] # <<>>
                          /\ EndsWith(ck.chunks[k - 1].chunk_text, Strip(ck.seeds[k]))
        /\ SentencesOf(Concat([k \in 1..Len(ck.chunks) |-> NonOverlapPortion(k)]))
              = SentencesOf(ck.text)

\* a finished call whose second and third chunk each start with an overlap
C7_Witness ==
    /\ ck.phase = "done"
    /\ Len(ck.chunks) >= 3
    /\ Len(SentencesOf(ck.text)) >= 3

\* C8: under a valid configuration (0 < overlap < chunk_size) every chunk has
\* at most chunk_size + (tokens of the longest sentence) tokens, and every
\* chunk but the first begins with a token suffix of its predecessor of at
\* most overlap tokens.
C8_TokenBound ==
    (ck.phase = "done" /\ 0 < config.CHUNK_OVERLAP
        /\ config.CHUNK_OVERLAP < config.CHUNK_SIZE) =>
        /\ \A k \in 1..Len(ck.chunks) :
              count_tokens(ck.chunks[k].chunk_text)
                  <= config.CHUNK_SIZE + LongestSentenceTokens
        /\ \A k \in 2..Len(ck.chunks) :
              /\ count_tokens(ck.seeds[k]) <= config.CHUNK_OVERLAP
              /\ \E n \in 1..config.CHUNK_OVERLAP :
                    ck.seeds[k] = Decode(LastSlice(Encode(ck.raws[k - 1]), n))
              /\ StartsWith(ck.chunks[k].chunk_text, Strip(ck.seeds[k]))

----------------------------------------------------------------------------
(* SpecParse: _parse_llm_response on bounded raw texts.                    *)

MaxRawPieces == 5

MaxFieldPieces == 2

\* what raw model texts are made of
RawPieces == {ANSWER_MARK, REASONING_MARK, <<"x">>, <<" ">>, <<"\n">>}

RawTexts == {Concat(q) : q \in SeqsOf(RawPieces, 0, MaxRawPieces)}

\* what the fields a and r of a formatted text are made of
FieldPieces == {<<"x">>, <<" ">>, <<"\n">>, <<"y", " ", "z">>, ANSWER_MARK}

Fields == {Concat(q) : q \in SeqsOf(FieldPieces, 0, MaxFieldPieces)}

\* f"ANSWER: {a}\nREASONING: {r}"
Formatted(a, r) ==
    ANSWER_MARK \o <<" ">> \o a \o <<"\n">> \o REASONING_MARK \o <<" ">> \o r

\* the call and its return value
ParseCall ==
    /\ ps.phase = "start"
    /\ LET out == ParseLLMResponse(ps.response)
       IN  ps' = [ps EXCEPT !.phase = "done",
                            !.answer = out.answer,
                            !.reasoning = out.reasoning]
    /\ UNCHANGED <<config, conversations, collection, clock, pc, req, ck, provider, rp, documents, chunks, up>>

InitParse ==
    /\ PipelineOff
    /\ ChunkOff
    /\ ReplyOff
    /\ StoresOff
    /\ config = DefaultConfig
    /\ ps \in {[phase |-> "start", mode |-> "raw", a |-> <<>>, r |-> <<>>,
                response |-> t, answer |-> <<>>, reasoning |-> <<>>] :
                    t \in RawTexts}
           \cup
              {[phase |-> "start", mode |-> "formatted", a |-> f[1], r |-> f[2],
                response |-> Formatted(f[1], f[2]),
                answer |-> <<>>, reasoning |-> <<>>] :
                    f \in Fields \X Fields}

NextParse == ParseCall

SpecParse == InitParse /\ [][NextParse]_vars

----------------------------------------------------------------------------
(* Properties of _parse_llm_response.                                      *)

\* a and r as the claim takes them: non-empty, one line, no marker inside
PlainField(f) ==
    /\ f # <<>>
    /\ ~Contains(f, <<"\n">>)
    /\ ~Contains(f, ANSWER_MARK)
    /\ ~Contains(f, REASONING_MARK)

\* C9 as stated: parse("ANSWER: {a}\nREASONING: {r}") = (a, r) for every
\* non-empty single-line a and r without the markers.
C9_RoundTripAnyField ==
    (ps.phase = "done" /\ ps.mode = "formatted"
        /\ PlainField(ps.a) /\ PlainField(ps.r)) =>
        (ps.answer = ps.a /\ ps.reasoning = ps.r)

\* C9, amended: the same, for a and r that neither start nor end with
\* whitespace (the parser strips both fields).
C9_RoundTripTrimmed ==
    (ps.phase = "done" /\ ps.mode = "formatted"
        /\ PlainField(ps.a) /\ PlainField(ps.r)
        /\ Strip(ps.a) = ps.a /\ Strip(ps.r) = ps.r) =>
        (ps.answer = ps.a /\ ps.reasoning = ps.r)

\* a formatted text whose fields hold inner blanks came back unchanged
C9_Witness ==
    /\ ps.phase = "done" /\ ps.mode = "formatted"
    /\ ps.a = <<"y", " ", "z">>
    /\ ps.r = <<"x", "y", " ", "z">>
    /\ ps.answer = ps.a /\ ps.reasoning = ps.r

\* The lines of the raw text as the parser tests them, and the marker lines.
StrippedLines == LET ls == Split(ps.response, "\n")
                 IN  [i \in 1..Len(ls) |-> Strip(ls[i])]

AnswerLines == {i \in 1..Len(StrippedLines) : StartsWith(StrippedLines[i], ANSWER_MARK)}

ReasoningLines ==
    {i \in 1..Len(StrippedLines) : StartsWith(StrippedLines[i], REASONING_MARK)}

\* the non-empty lines after marker line i up to the next marker line, each
\* preceded by one blank
RECURSIVE Continuation(_)
Continuation(i) ==
    IF i + 1 > Len(StrippedLines) \/ (i + 1) \in (AnswerLines \cup ReasoningLines)
    THEN <<>>
    ELSE (IF StrippedLines[i + 1] = <<>> THEN <<>>
          ELSE <<" ">> \o StrippedLines[i + 1]) \o Continuation(i + 1)

\* what the last line carrying the marker captures: the rest of that line,
\* stripped, and the non-empty lines that follow it while it is the active one
Captured(markerLines, markerLen) ==
    IF markerLines = {} THEN <<>>
    ELSE LET i == CHOOSE m \in markerLines : \A n \in markerLines : n <= m
         IN  Strip(DropFirst(StrippedLines[i], markerLen)) \o Continuation(i)

CapturedAnswer == Captured(AnswerLines, Len(ANSWER_MARK))

CapturedReasoning == Captured(ReasoningLines, Len(REASONING_MARK))

\* C10 as stated, read in the parser's favour (a line begins with a marker
\* when its stripped form does; "verbatim" up to surrounding whitespace):
\* no marker line: (raw text, "Answer derived ..."); an ANSWER: line and no
\* REASONING: line: reasoning "Based on ..."; otherwise neither fallback
\* string and the fields are the captured contents.
C10_FallbackByMarker ==
    ps.phase = "done" =>
        /\ (AnswerLines = {} /\ ReasoningLines = {}) =>
              (ps.answer = Strip(ps.response) /\ ps.reasoning = FALLBACK_DERIVED)
        /\ (AnswerLines # {} /\ ReasoningLines = {}) =>
              ps.reasoning = FALLBACK_CONTEXT
        /\ ReasoningLines # {} =>
              /\ ps.reasoning \notin {FALLBACK_DERIVED, FALLBACK_CONTEXT}
              /\ ps.answer = Strip(CapturedAnswer)
              /\ ps.reasoning = Strip(CapturedReasoning)

\* C10, amended: the fallbacks follow what was captured, not which markers
\* occurred.  Both captures empty (always so without a marker line): the
\* result is (raw text stripped, "Answer derived ...").  Otherwise the answer
\* is the captured answer, stripped, and the reasoning is "Based on ..." when
\* the captured reasoning is empty (always so without a REASONING: line) and
\* the captured reasoning, stripped, when it is not.
C10_FallbackByCapture ==
    ps.phase = "done" =>
        /\ (AnswerLines = {} /\ ReasoningLines = {}) =>
              (CapturedAnswer = <<>> /\ CapturedReasoning = <<>>)
        /\ ReasoningLines = {} => CapturedReasoning = <<>>
        /\ (CapturedAnswer = <<>> /\ CapturedReasoning = <<>>) =>
              (ps.answer = Strip(ps.response) /\ ps.reasoning = FALLBACK_DERIVED)
        /\ (CapturedAnswer # <<>> /\ CapturedReasoning = <<>>) =>
              (ps.answer = Strip(CapturedAnswer) /\ ps.reasoning = FALLBACK_CONTEXT)
        /\ CapturedReasoning # <<>> =>
              (ps.answer = Strip(CapturedAnswer)
                  /\ ps.reasoning = Strip(CapturedReasoning))

\* both markers occur, nothing is captured, and the no-marker fallback is used
C10_Witness ==
    /\ ps.phase = "done"
    /\ AnswerLines # {} /\ ReasoningLines # {}
    /\ ps.reasoning = FALLBACK_DERIVED
    /\ ps.answer = Strip(ps.response)

----------------------------------------------------------------------------
(* Spec: the /ask and /history handlers as concurrent requests.  Each      *)
(* worker runs one handler at a time; the workers share the collections.   *)

MaxTurns == 2

MaxLimit == 1

Users == {"u1", "u2"}

\* "What x" and a blank question
Questions == {<<"W", "h", "a", "t", " ", "x">>, <<" ">>}

\* top_k: int = 4
DEFAULT_TOP_K == 4

TopKs == {DEFAULT_TOP_K}

\* limit=None and the explicit limits
Limits == {<<>>} \cup {<<n>> : n \in 0..MaxLimit}

\* what the provider call can do: raise, or return a message content
LLMOutcomes ==
    {[kind |-> "error", is_none |-> FALSE, content |-> <<>>,
      exc |-> [type |-> "APITimeoutError", message |-> <<"Request timed out.">>]],
     [kind |-> "content", is_none |-> TRUE, content |-> <<>>,
      exc |-> [type |-> "none", message |-> <<>>]],
     [kind |-> "content", is_none |-> FALSE,
      content |-> ANSWER_MARK \o <<" ", "y", "\n">> \o REASONING_MARK \o <<" ", "z">>,
      exc |-> [type |-> "none", message |-> <<>>]]}

NoLLM == [kind |-> "none", is_none |-> FALSE, content |-> <<>>,
          exc |-> [type |-> "none", message |-> <<>>]]

\* the index after one upload: two chunks of one document
IndexedChunks ==
    <<[id |-> ChunkId(DOC_ID, 0),
       document |-> <<"a", "l", "p", "h", "a", " ", "i", "s", " ", "x", ".">>,
       metadata |-> [document_id |-> DOC_ID, filename |-> "f.txt", page_number |-> 0]],
      [id |-> ChunkId(DOC_ID, 1),
       document |-> <<"b", ".">>,
       metadata |-> [document_id |-> DOC_ID, filename |-> "f.txt", page_number |-> 0]]>>

\* the locals of a handler that has not started
ReqIdle ==
    [kind |-> "idle", user_id |-> "", question |-> <<>>, top_k |-> 0,
     limit |-> <<>>, history |-> <<>>, retrieved_chunks |-> <<>>,
     prompt |-> <<>>, llm |-> NoLLM, answer |-> <<>>, reasoning |-> <<>>,
     references |-> <<>>, suggestions |-> <<>>, conversation_turn |-> <<>>,
     response |-> <<>>, outcome |-> "", steps |-> <<>>]

AskFlow == {"RetrieveHistory", "RetrieveEvidence", "BuildContext", "Generate",
            "ParseAndRespond", "PersistTurn", "Upsert", "Return"}

\* ask_question of main.py up to the first statement of answer_question
Ask(p) ==
    /\ pc[p] = "Idle"
    /\ clock + Cardinality({q \in Procs : pc[q] \in AskFlow}) < MaxTurns
    /\ \E u \in Users, q \in Questions, k \in TopKs :
          IF Strip(q) = <<>>
          THEN /\ req' = [req EXCEPT ![p] = [ReqIdle EXCEPT
                              !.kind = "ask", !.user_id = u, !.question = q,
                              !.top_k = k, !.outcome = "Rejected"]]
               /\ pc' = [pc EXCEPT ![p] = "Done"]
          ELSE /\ req' = [req EXCEPT ![p] = [ReqIdle EXCEPT
                              !.kind = "ask", !.user_id = u, !.question = q,
                              !.top_k = k]]
               /\ pc' = [pc EXCEPT ![p] = "RetrieveHistory"]
    /\ UNCHANGED <<config, conversations, collection, clock, ps, ck, provider, rp, documents, chunks, up>>

\* 1. history = await db.get_conversation_history(user_id)
RetrieveHistory(p) ==
    /\ pc[p] = "RetrieveHistory"
    /\ req' = [req EXCEPT ![p].history =
                    GetConversationHistory(conversations, req[p].user_id, <<>>),
                          ![p].steps = Append(@, "RetrieveHistory")]
    /\ pc' = [pc EXCEPT ![p] = "RetrieveEvidence"]
    /\ UNCHANGED <<config, conversations, collection, clock, ps, ck, provider, rp, documents, chunks, up>>

\* 2. the search, and the short cut when it finds nothing
RetrieveEvidence(p) ==
    /\ pc[p] = "RetrieveEvidence"
    /\ \E found \in SimilaritySearch(collection, req[p].question, req[p].top_k) :
          IF NoEvidence(found)
          THEN /\ req' = [req EXCEPT
                              ![p].retrieved_chunks = found,
                              ![p].response = <<EmptyEvidenceResponse(req[p].user_id)>>,
                              ![p].outcome = "EmptyEvidence",
                              ![p].steps = Append(@, "RetrieveEvidence")]
               /\ pc' = [pc EXCEPT ![p] = "Done"]
          ELSE /\ req' = [req EXCEPT
                              ![p].retrieved_chunks = found,
                              ![p].steps = Append(@, "RetrieveEvidence")]
               /\ pc' = [pc EXCEPT ![p] = "BuildContext"]
    /\ UNCHANGED <<config, conversations, collection, clock, ps, ck, provider, rp, documents, chunks, up>>

\* 3. prompt = self._build_context_prompt(question, history, retrieved_chunks)
BuildContext(p) ==
    /\ pc[p] = "BuildContext"
    /\ req' = [req EXCEPT ![p].prompt =
                    BuildContextPrompt(req[p].question, req[p].history,
                                       req[p].retrieved_chunks),
                          ![p].steps = Append(@, "BuildContext")]
    /\ pc' = [pc EXCEPT ![p] = "Generate"]
    /\ UNCHANGED <<config, conversations, collection, clock, ps, ck, provider, rp, documents, chunks, up>>

\* what the handler does with an exception raised inside the try block
Fail(p, exc, step) ==
    IF Caught(exc)
    THEN /\ req' = [req EXCEPT
                        ![p].response =
                            <<GenerationFailedResponse(req[p].user_id, exc.message)>>,
                        ![p].outcome = "GenerationFailed",
                        ![p].steps = Append(@, step)]
         /\ pc' = [pc EXCEPT ![p] = "Done"]
    ELSE /\ req' = [req EXCEPT ![p].outcome = "Raised",
                               ![p].steps = Append(@, step)]
         /\ pc' = [pc EXCEPT ![p] = "Done"]

\* 4. the provider call
Generate(p) ==
    /\ pc[p] = "Generate"
    /\ \E o \in provider :
          IF o.kind = "error"
          THEN Fail(p, o.exc, "Generate")
          ELSE /\ req' = [req EXCEPT ![p].llm = o,
                                     ![p].steps = Append(@, "Generate")]
               /\ pc' = [pc EXCEPT ![p] = "ParseAndRespond"]
    /\ UNCHANGED <<config, conversations, collection, clock, ps, ck, provider, rp, documents, chunks, up>>

\* 5.-8. parse, references, suggestions, the turn
ParseAndRespond(p) ==
    /\ pc[p] = "ParseAndRespond"
    /\ IF req[p].llm.is_none
       THEN /\ Fail(p, [type |-> "AttributeError", message |-> NONE_SPLIT_MESSAGE],
                    "ParseAndRespond")
            /\ clock' = clock
       ELSE LET parsed == ParseLLMResponse(req[p].llm.content)
                references == ExtractReferences(req[p].retrieved_chunks, parsed.answer)
            IN  /\ \E suggestions \in
                        GenerateSuggestions(req[p].question, parsed.answer, references) :
                      req' = [req EXCEPT
                                ![p].answer = parsed.answer,
                                ![p].reasoning = parsed.reasoning,
                                ![p].references = references,
                                ![p].suggestions = suggestions,
                                ![p].conversation_turn =
                                    <<MakeTurn(req[p].question, parsed.answer,
                                               references, clock)>>,
                                ![p].steps = Append(@, "ParseAndRespond")]
                /\ clock' = clock + 1
                /\ pc' = [pc EXCEPT ![p] = "PersistTurn"]
    /\ UNCHANGED <<config, conversations, collection, ps, ck, provider, rp, documents, chunks, up>>

\* store_conversation_turn: update_one looks for the user's document and,
\* when there is one, pushes the turn onto it
PersistTurn(p) ==
    /\ pc[p] = "PersistTurn"
    /\ LET i == FindOne(conversations, req[p].user_id)
       IN  IF i # 0
           THEN /\ conversations' =
                      PushTurn(conversations, i, req[p].conversation_turn[1], clock)
                /\ pc' = [pc EXCEPT ![p] = "Return"]
           ELSE /\ conversations' = conversations
                /\ pc' = [pc EXCEPT ![p] = "Upsert"]
    /\ req' = [req EXCEPT ![p].steps = Append(@, "PersistTurn")]
    /\ UNCHANGED <<config, collection, clock, ps, ck, provider, rp, documents, chunks, up>>

\* store_conversation_turn, upsert=True: the query matched no document, so
\* the server inserts one.  No unique index on user_id exists, so the insert
\* goes through even if another request has inserted one meanwhile.
Upsert(p) ==
    /\ pc[p] = "Upsert"
    /\ conversations' =
          InsertHistory(conversations, req[p].user_id,
                        req[p].conversation_turn[1], clock)
    /\ pc' = [pc EXCEPT ![p] = "Return"]
    /\ UNCHANGED <<config, collection, clock, req, ps, ck, provider, rp, documents, chunks, up>>

\* return AnswerResponse(...)
Return(p) ==
    /\ pc[p] = "Return"
    /\ req' = [req EXCEPT
                  ![p].response = <<AnswerResponse(req[p].answer, req[p].reasoning,
                                        req[p].references, req[p].suggestions,
                                        req[p].user_id)>>,
                  ![p].outcome = "Success",
                  ![p].steps = Append(@, "Done")]
    /\ pc' = [pc EXCEPT ![p] = "Done"]
    /\ UNCHANGED <<config, conversations, collection, clock, ps, ck, provider, rp, documents, chunks, up>>

\* get_history of main.py, and get_conversation_history with a limit
HistoryRead(p) ==
    /\ pc[p] = "Idle"
    /\ \E u \in Users, limit \in Limits :
          req' = [req EXCEPT ![p] = [ReqIdle EXCEPT
                      !.kind = "history", !.user_id = u, !.limit = limit,
                      !.history = GetConversationHistory(conversations, u, limit),
                      !.outcome = "History"]]
    /\ pc' = [pc EXCEPT ![p] = "Done"]
    /\ UNCHANGED <<config, conversations, collection, clock, ps, ck, provider, rp, documents, chunks, up>>

\* the response has gone out; the worker takes the next request
Finish(p) ==
    /\ pc[p] = "Done"
    /\ req' = [req EXCEPT ![p] = ReqIdle]
    /\ pc' = [pc EXCEPT ![p] = "Idle"]
    /\ UNCHANGED <<config, conversations, collection, clock, ps, ck, provider, rp, documents, chunks, up>>

Init ==
    /\ ParseOff
    /\ ChunkOff
    /\ ReplyOff
    /\ StoresOff
    /\ provider = LLMOutcomes
    /\ config \in {[DefaultConfig EXCEPT !.MAX_HISTORY_TURNS = n] : n \in 0..MaxLimit}
    /\ conversations = <<>>
    /\ collection = IndexedChunks
    /\ clock = 0
    /\ pc = [p \in Procs |-> "Idle"]
    /\ req = [p \in Procs |-> ReqIdle]

Next ==
    \E p \in Procs :
        \/ Ask(p)
        \/ RetrieveHistory(p)
        \/ RetrieveEvidence(p)
        \/ BuildContext(p)
        \/ Generate(p)
        \/ ParseAndRespond(p)
        \/ PersistTurn(p)
        \/ Upsert(p)
        \/ Return(p)
        \/ HistoryRead(p)
        \/ Finish(p)

Spec == Init /\ [][Next]_vars

----------------------------------------------------------------------------
(* Properties of the handlers.                                             *)

\* the user's stored conversations sequence, as a read finds it
StoredHistory(u) ==
    LET i == FindOne(conversations, u)
    IN  IF i = 0 THEN <<>> ELSE conversations[i].conversations

\* where turn t is stored: (document, position) pairs
PlacesOf(docs, t) ==
    {<<i, j>> \in (1..Len(docs)) \X (1..(MaxTurns + 1)) :
        j <= Len(docs[i].conversations) /\ docs[i].conversations[j] = t}

\* the number of turns stored under user u
TurnCount(docs, u) ==
    Cardinality({<<i, j>> \in (1..Len(docs)) \X (1..(MaxTurns + 1)) :
        docs[i].user_id = u /\ j <= Len(docs[i].conversations)})

\* the documents of the users other than u, with their positions
OthersDocs(docs, u) == {<<i, docs[i]>> : i \in {k \in 1..Len(docs) : docs[k].user_id # u}}

\* the step taken is one of worker p
Moved(p) == pc'[p] # pc[p]

\* only a completed update_one changes the conversations collection
OnlyStoreWrites ==
    conversations' # conversations =>
        \E p \in Procs : pc[p] \in {"PersistTurn", "Upsert"} /\ pc'[p] = "Return"

\* C1: when the search returns no hit, answer_question returns the fixed
\* canned response (the apology, no references, the two fixed suggestions),
\* the conversations collection is as it was, and neither the prompt builder
\* nor the LLM was invoked and no turn was built.
C1_EmptyEvidence ==
    /\ [](\A p \in Procs :
            (pc[p] = "Done" /\ req[p].outcome = "EmptyEvidence") =>
                /\ req[p].response # <<>>
                /\ req[p].response[1].answer =
                      <<"I couldn't find relevant information in the uploaded documents to answer your question.">>
                /\ req[p].response[1].references = <<>>
                /\ req[p].response[1].suggestions =
                      << <<"Try rephrasing your question">>,
                         <<"Upload relevant documents first">> >>
                /\ req[p].response[1].conversation_id = req[p].user_id
                /\ req[p].steps = <<"RetrieveHistory", "RetrieveEvidence">>
                /\ req[p].prompt = <<>>
                /\ req[p].llm.kind = "none"
                /\ req[p].conversation_turn = <<>>)
    /\ [][\A p \in Procs :
            (pc[p] = "RetrieveEvidence" /\ Moved(p)
                /\ req'[p].retrieved_chunks = <<>>) =>
                /\ pc'[p] = "Done"
                /\ req'[p].outcome = "EmptyEvidence"
                /\ conversations' = conversations]_vars
    /\ [][OnlyStoreWrites]_vars

\* a question without evidence was answered for a user who has a stored turn
C1_Witness ==
    \E p \in Procs :
        /\ pc[p] = "Done" /\ req[p].outcome = "EmptyEvidence"
        /\ StoredHistory(req[p].user_id) # <<>>

\* C2: with evidence found, a failure of the model call or of the parse of
\* its content ends the call with the degraded response: the answer is the
\* fixed prefix followed by the error message, no references, the single
\* retry suggestion; nothing is raised to the caller and no turn is stored.
C2_GenerationFailed ==
    /\ [](\A p \in Procs :
            (pc[p] = "Done" /\ req[p].kind = "ask" /\ req[p].steps # <<>>
                /\ req[p].steps[Len(req[p].steps)] \in {"Generate", "ParseAndRespond"}) =>
                /\ req[p].outcome = "GenerationFailed"
                /\ req[p].retrieved_chunks # <<>>
                /\ req[p].response # <<>>
                /\ req[p].response[1].answer \in
                      {<<"I encountered an error while processing your question: ">> \o m :
                          m \in {<<"Request timed out.">>,
                                 <<"'NoneType' object has no attribute 'split'">>}}
                /\ req[p].llm.is_none =>
                      req[p].response[1].answer =
                          <<"I encountered an error while processing your question: ",
                            "'NoneType' object has no attribute 'split'">>
                /\ req[p].response[1].references = <<>>
                /\ req[p].response[1].suggestions =
                      << <<"Please try asking your question again">> >>
                /\ req[p].response[1].conversation_id = req[p].user_id
                /\ req[p].conversation_turn = <<>>)
    /\ [][\A p \in Procs :
            (pc[p] \in {"Generate", "ParseAndRespond"} /\ pc'[p] = "Done") =>
                /\ req'[p].outcome = "GenerationFailed"
                /\ conversations' = conversations]_vars
    /\ [][OnlyStoreWrites]_vars

\* the provider returned no content, the parse failed, the call ended degraded
C2_Witness ==
    \E p \in Procs :
        /\ pc[p] = "Done" /\ req[p].outcome = "GenerationFailed"
        /\ req[p].llm.is_none
        /\ StoredHistory(req[p].user_id) # <<>>

\* C3: after two store_conversation_turn calls for one user have completed,
\* both turns are in that user's stored conversations sequence.
C3_NoLostUpdate ==
    \A p, q \in Procs :
        (/\ p # q
         /\ req[p].user_id = req[q].user_id
         /\ pc[p] \in {"Return", "Done"} /\ req[p].conversation_turn # <<>>
         /\ pc[q] \in {"Return", "Done"} /\ req[q].conversation_turn # <<>>) =>
            LET stored == StoredHistory(req[p].user_id)
            IN  /\ \E j \in 1..Len(stored) : stored[j] = req[p].conversation_turn[1]
                /\ \E j \in 1..Len(stored) : stored[j] = req[q].conversation_turn[1]

SuccessSteps ==
    <<"RetrieveHistory", "RetrieveEvidence", "BuildContext", "Generate",
      "ParseAndRespond", "PersistTurn", "Done">>

\* C4: on the success path the steps run in the order RetrieveHistory,
\* RetrieveEvidence, BuildContext, Generate, ParseAndRespond, PersistTurn,
\* Done; the turn carries the question, the parsed answer and the extracted
\* references; the store step adds exactly that one turn under the
\* requesting user_id and leaves every other user's documents as they were;
\* the response is set only after the store step has completed.
C4_SuccessPath ==
    /\ [](\A p \in Procs :
            /\ (pc[p] \in AskFlow \/ req[p].outcome = "Success") =>
                  req[p].steps = FirstSlice(SuccessSteps, Len(req[p].steps))
            /\ pc[p] \in AskFlow => req[p].response = <<>>
            /\ req[p].conversation_turn # <<>> =>
                  LET t == req[p].conversation_turn[1]
                  IN  /\ t.question = req[p].question
                      /\ t.answer = ParseLLMResponse(req[p].llm.content).answer
                      /\ t.answer = <<"y">>
                      /\ Len(t.references) = Len(req[p].retrieved_chunks)
                      /\ \A i \in 1..Len(t.references) :
                            /\ t.references[i].chunk_id = req[p].retrieved_chunks[i].chunk_id
                            /\ t.references[i].content_snippet =
                                  req[p].retrieved_chunks[i].content
            /\ (pc[p] = "Done" /\ req[p].outcome = "Success") =>
                  /\ req[p].steps = SuccessSteps
                  /\ req[p].response # <<>>
                  /\ req[p].response[1].answer = req[p].conversation_turn[1].answer
                  /\ req[p].response[1].references =
                        req[p].conversation_turn[1].references)
    /\ [][\A p \in Procs :
            /\ (pc[p] \in {"PersistTurn", "Upsert"} /\ pc'[p] = "Return") =>
                  LET t == req[p].conversation_turn[1]
                      u == req[p].user_id
                  IN  /\ PlacesOf(conversations, t) = {}
                      /\ Cardinality(PlacesOf(conversations', t)) = 1
                      /\ \A pl \in PlacesOf(conversations', t) :
                            conversations'[pl[1]].user_id = u
                      /\ TurnCount(conversations', u) = TurnCount(conversations, u) + 1
                      /\ OthersDocs(conversations', u) = OthersDocs(conversations, u)
            /\ (Moved(p) /\ req'[p].outcome = "Success") => pc[p] = "Return"]_vars
    /\ [][OnlyStoreWrites]_vars

\* a call succeeded for one user while another user has a stored history
C4_Witness ==
    \E p \in Procs :
        /\ pc[p] = "Done" /\ req[p].outcome = "Success"
        /\ Len(req[p].references) = 2
        /\ \E u \in Users : u # req[p].user_id /\ StoredHistory(u) # <<>>

\* C5: a history read returns exactly the most recent min(n, L) of the
\* user's n stored turns, oldest first, L being the limit argument or
\* MAX_HISTORY_TURNS when none is given; an unknown user gives the empty list.
C5_HistoryWindow ==
    [][\A p \in Procs :
        (\/ (pc[p] = "Idle" /\ pc'[p] = "Done" /\ req'[p].kind = "history")
         \/ (pc[p] = "RetrieveHistory" /\ pc'[p] = "RetrieveEvidence")) =>
            LET stored == StoredHistory(req'[p].user_id)
                L == IF req'[p].limit = <<>> THEN config.MAX_HISTORY_TURNS
                     ELSE req'[p].limit[1]
                n == Len(stored)
                m == Min(n, L)
            IN  /\ req'[p].history = SubSeq(stored, n - m + 1, n)
                /\ Len(req'[p].history) <= L]_vars

----------------------------------------------------------------------------
(* SpecAnswer: answer_question, one request at a time, against a provider  *)
(* that can return any of a set of raw texts.                              *)

\* the raw texts of the model: empty, blank, no marker, either marker alone
\* with and without content, both markers
ModelTexts ==
    {<<>>,
     <<" ">>,
     <<"y">>,
     ANSWER_MARK,
     ANSWER_MARK \o <<" ", "y">>,
     REASONING_MARK,
     REASONING_MARK \o <<" ", "z">>,
     ANSWER_MARK \o <<"\n">> \o REASONING_MARK \o <<" ", "z">>,
     ANSWER_MARK \o <<" ", "y", "\n">> \o REASONING_MARK \o <<" ", "z">>}

\* response.choices[0].message.content being the given text
ContentOutcome(text) ==
    [kind |-> "content", is_none |-> FALSE, content |-> text,
     exc |-> [type |-> "none", message |-> <<>>]]

InitAnswer ==
    /\ ParseOff
    /\ ChunkOff
    /\ ReplyOff
    /\ StoresOff
    /\ provider = LLMOutcomes \cup {ContentOutcome(t) : t \in ModelTexts}
    /\ config = DefaultConfig
    /\ conversations = <<>>
    /\ collection = IndexedChunks
    /\ clock = 0
    /\ pc = [p \in Procs |-> IF p = "w1" THEN "Idle" ELSE "Off"]
    /\ req = [p \in Procs |-> IF p = "w1" THEN ReqIdle ELSE [kind |-> "off"]]

SpecAnswer == InitAnswer /\ [][Next]_vars

\* C11: every AnswerResponse that answer_question returns, on the
\* empty-evidence path, the generation-failed path and the success path, and
\* for every text the model returns (the empty text and a text with only a
\* REASONING: marker included), has a non-empty answer string.
C11_NonEmptyAnswer ==
    \A p \in Procs :
        (req[p].kind = "ask" /\ req[p].response # <<>>)
            => req[p].response[1].answer # <<>>

----------------------------------------------------------------------------
(* SpecReply: _extract_references and _generate_suggestions on bounded     *)
(* questions and retrieval results, then the AnswerResponse built of them. *)

MaxRetrieved == 2

\* n characters of "gamma gamma gamma ..."
LongText(n) == [i \in 1..n |-> <<"g", "a", "m", "m", "a", " ">>[((i - 1) % 6) + 1]]

\* chunk texts: empty, without a long word, with one, with two, and texts
\* of 100, 150, 151 and 200 characters
ReplyContents ==
    <<<<>>,
      <<"b", ".">>,
      <<"A", "l", "p", "h", "a", " ", "i", "s", " ", "x", ".">>,
      <<"a", "l", "p", "h", "a", " ", "t", "h", "e", "t", "a">>,
      LongText(100),
      LongText(150),
      LongText(151),
      LongText(200)>>

\* one hit of the search: the c-th text, found at the given rank
ReplyChunk(c, rank) ==
    [chunk_id |-> ChunkId(DOC_ID, c - 1),
     content  |-> ReplyContents[c],
     metadata |-> [document_id |-> DOC_ID, filename |-> "f.txt", page_number |-> 0],
     score    |-> 10000 - RankDistance(rank)]

\* the retrieval results: up to MaxRetrieved hits, a text possibly hit twice
ReplyRetrievals ==
    UNION {{[i \in 1..n |-> ReplyChunk(q[i], i)] : q \in [1..n -> 1..Len(ReplyContents)]}
           : n \in 0..MaxRetrieved}

\* questions with none, one, two and all three of what, why, when
ReplyQuestions ==
    {<<"x">>,
     <<"W", "h", "a", "t", " ", "x">>,
     <<"W", "H", "Y">>,
     <<"s", "o", "m", "e", "w", "h", "a", "t">>,
     <<"w", "h", "e", "n", " ", "w", "h", "y">>,
     <<"w", "h", "y", " ", "w", "h", "a", "t">>,
     <<"W", "h", "e", "n", " ", "w", "h", "a", "t", " ", "w", "h", "y">>}

ReplyAnswers == {<<"y">>, <<"a", "l", "p", "h", "a">>}

\* 6. references = self._extract_references(retrieved_chunks, answer)
ExtractCall ==
    /\ rp.phase = "start"
    /\ rp' = [rp EXCEPT !.phase = "extracted",
                        !.references = ExtractReferences(rp.retrieved_chunks, rp.answer)]
    /\ UNCHANGED <<config, conversations, collection, clock, pc, req, ps, ck,
                   provider, documents, chunks, up>>

\* 7. suggestions = self._generate_suggestions(question, answer, references)
SuggestCall ==
    /\ rp.phase = "extracted"
    /\ \E suggestions \in GenerateSuggestions(rp.question, rp.answer, rp.references) :
          rp' = [rp EXCEPT !.phase = "suggested", !.suggestions = suggestions]
    /\ UNCHANGED <<config, conversations, collection, clock, pc, req, ps, ck,
                   provider, documents, chunks, up>>

\* return AnswerResponse(answer, reasoning, references, suggestions, user_id)
ReplyCall ==
    /\ rp.phase = "suggested"
    /\ rp' = [rp EXCEPT !.phase = "done",
                        !.response = <<AnswerResponse(rp.answer, FALLBACK_CONTEXT,
                                           rp.references, rp.suggestions, "u1")>>]
    /\ UNCHANGED <<config, conversations, collection, clock, pc, req, ps, ck,
                   provider, documents, chunks, up>>

InitReply ==
    /\ PipelineOff
    /\ ParseOff
    /\ ChunkOff
    /\ StoresOff
    /\ config = DefaultConfig
    /\ \E q \in ReplyQuestions, a \in ReplyAnswers, r \in ReplyRetrievals :
          rp = [phase |-> "start", question |-> q, answer |-> a,
                retrieved_chunks |-> r, references |-> <<>>,
                suggestions |-> <<>>, response |-> <<>>]

NextReply == ExtractCall \/ SuggestCall \/ ReplyCall

SpecReply == InitReply /\ [][NextReply]_vars

----------------------------------------------------------------------------
(* Properties of the references and the suggestions.                       *)

WHAT_PROMPT == <<"How does this relate to other aspects mentioned in the documents?">>

WHY_PROMPT == <<"What are the implications of this?">>

WHEN_PROMPT == <<"What happened before or after this?">>

\* the prompts the question calls for, in the order what, why, when
ExpectedPrompts(question) ==
    LET has(w) == \E i \in 0..(Len(question) - Len(w)) :
                      Lower(SubSeq(question, i + 1, i + Len(w))) = w
    IN  (IF has(<<"w", "h", "a", "t">>) THEN <<WHAT_PROMPT>> ELSE <<>>)
        \o (IF has(<<"w", "h", "y">>) THEN <<WHY_PROMPT>> ELSE <<>>)
        \o (IF has(<<"w", "h", "e", "n">>) THEN <<WHEN_PROMPT>> ELSE <<>>)

\* the words of a text, lowercased
WordSet(text) ==
    LET ws == SplitWords(Lower(text))
    IN  {ws[j] : j \in 1..Len(ws)}

\* the lowercased words longer than 4 characters of the snippets
LongWords(references) ==
    {w \in UNION {WordSet(references[i].content_snippet) : i \in 1..Len(references)} :
        Len(w) >= 5}

\* C12: _generate_suggestions returns at most 3 suggestions, the first 3
\* entries of: the what, why and when prompts, each present only if the
\* question contains the word in any letter case, followed by "Tell me more
\* about {word}" for two distinct words longer than 4 characters of the
\* reference snippets (for the only one, or none, if there are fewer); so
\* the response built of them has at most 3 suggestions, as the two canned
\* responses do.
C12_SuggestionCap ==
    /\ rp.phase \in {"suggested", "done"} =>
          LET words == LongWords(rp.references)
              n == Min(2, Cardinality(words))
          IN  /\ Len(rp.suggestions) <= 3
              /\ \E pick \in [1..n -> words] :
                    /\ \A i, j \in 1..n : i # j => pick[i] # pick[j]
                    /\ rp.suggestions =
                          SubSeq(ExpectedPrompts(rp.question)
                                   \o [i \in 1..n |-> <<"Tell me more about ">> \o pick[i]],
                                 1, Min(3, Len(ExpectedPrompts(rp.question)) + n))
    /\ rp.phase = "done" =>
          /\ rp.response[1].suggestions = rp.suggestions
          /\ Len(rp.response[1].suggestions) <= 3
    /\ Len(EmptyEvidenceResponse("u1").suggestions) <= 3
    /\ Len(GenerationFailedResponse("u1", <<>>).suggestions) <= 3

\* two prompts and two long words: one topic entry is kept, the other cut
C12_Witness ==
    /\ rp.phase = "done"
    /\ Len(ExpectedPrompts(rp.question)) = 2
    /\ Cardinality(LongWords(rp.references)) >= 2
    /\ Len(rp.suggestions) = 3
    /\ rp.suggestions[3][1] = "Tell me more about "

\* C13: _extract_references returns one Reference per retrieved chunk, in
\* retrieval order, with the chunk's chunk_id, whatever the answer argument
\* is; the content_snippet is the chunk text itself when that has at most
\* 150 characters, else its first 150 characters followed by "...".
C13_ReferencePerChunk ==
    rp.phase \in {"extracted", "suggested", "done"} =>
        /\ Len(rp.references) = Len(rp.retrieved_chunks)
        /\ \A i \in 1..Len(rp.retrieved_chunks) :
              LET text == rp.retrieved_chunks[i].content
                  ref == rp.references[i]
              IN  /\ ref.chunk_id = rp.retrieved_chunks[i].chunk_id
                  /\ Len(text) <= 150 => ref.content_snippet = text
                  /\ Len(text) > 150 =>
                        /\ Len(ref.content_snippet) = 153
                        /\ SubSeq(ref.content_snippet, 1, 150) = SubSeq(text, 1, 150)
                        /\ SubSeq(ref.content_snippet, 151, 153) = <<".", ".", ".">>
        /\ \A a \in ReplyAnswers :
              ExtractReferences(rp.retrieved_chunks, a) = rp.references

\* a text of 150 characters kept whole next to one of 200 cut to 150 + "..."
C13_Witness ==
    /\ rp.phase = "done"
    /\ Len(rp.retrieved_chunks) = 2
    /\ Len(rp.retrieved_chunks[1].content) = 150
    /\ Len(rp.references[1].content_snippet) = 150
    /\ Len(rp.retrieved_chunks[2].content) = 200
    /\ Len(rp.references[2].content_snippet) = 153

----------------------------------------------------------------------------
(* SpecStores: /upload, /clear and similarity_search, one request at a     *)
(* time, next to /ask requests that fill the conversations collection.     *)
(* The stores are MongoDB.documents, MongoDB.chunks, MongoDB.conversations *)
(* and the vector index VectorStore.collection.                            *)

MaxUploads == 1

MaxUploadChunks == 2

\* str(uuid.uuid4()) of the n-th upload
UploadId(n) == <<"d", DigitChar(6 + n)>>

\* the text of the i-th chunk of an upload
UploadText(i) == <<<<"a", ".">>, <<"b", ".">>, <<"a", " ", "b", ".">>>>[i]

\* what openai.embeddings.create can do
EmbedOutcomes == {"vector", "raise"}

\* get_embedding: the vector of the provider, [] when the call raised
GetEmbedding(text, outcome) ==
    IF outcome = "raise" THEN <<>> ELSE <<Len(text), 1>>

\* what collection.add can do with a batch in which an embedding is []: the
\* client raises and adds nothing, or it takes the batch as it is
AddOutcomes(embeddings) ==
    IF \E i \in 1..Len(embeddings) : embeddings[i] = <<>>
    THEN {"raise", "add"}
    ELSE {"add"}

\* the metadata add_chunks builds for a chunk; page_number or 0
ChunkMetadata(chunk) ==
    [document_id |-> chunk.document_id, filename |-> chunk.filename,
     page_number |-> IF chunk.page_number = NONE THEN 0 ELSE chunk.page_number]

\* collection.add(embeddings, documents, metadatas, ids)
CollectionAdd(index, embeddings, texts, metadatas, ids) ==
    index \o [i \in 1..Len(ids) |->
                 [id |-> ids[i], document |-> texts[i],
                  metadata |-> metadatas[i], embedding |-> embeddings[i]]]

\* the locals of the store handlers between two requests
UpIdle(uploads) ==
    [phase |-> "idle", kind |-> "idle", uploads |-> uploads, chunks |-> <<>>,
     embeddings |-> <<>>, query_embedding |-> <<>>, results |-> <<>>,
     queried |-> FALSE, wiped |-> {}, failed |-> "", response |-> <<>>]

\* no /ask request is running
AskIdle == \A p \in Procs : pc[p] \in {"Idle", "Off"}

\* upload_document: process_document, store_document_metadata and
\* store_document_chunks (main.py lines 30-37)
Upload ==
    /\ up.phase = "idle" /\ AskIdle
    /\ up.uploads < MaxUploads
    /\ \E n \in 1..MaxUploadChunks :
          LET document_id == UploadId(up.uploads + 1)
              made == [i \in 1..n |->
                          MakeChunk(document_id, "f.txt", i - 1, UploadText(i), NONE)]
          IN  /\ documents' = Append(documents,
                                  [document_id |-> document_id, filename |-> "f.txt",
                                   total_chunks |-> n])
              /\ chunks' = chunks \o made
              /\ up' = [UpIdle(up.uploads + 1) EXCEPT
                            !.phase = "Embed", !.kind = "upload", !.chunks = made]
    /\ UNCHANGED <<config, conversations, collection, clock, pc, req, ps, ck,
                   provider, rp>>

\* add_chunks, lines 36-39: one get_embedding call of the loop
Embed ==
    /\ up.phase = "Embed"
    /\ Len(up.embeddings) < Len(up.chunks)
    /\ \E o \in EmbedOutcomes :
          up' = [up EXCEPT !.embeddings =
                    Append(@, GetEmbedding(up.chunks[Len(up.embeddings) + 1].chunk_text, o))]
    /\ UNCHANGED <<config, conversations, collection, clock, pc, req, ps, ck,
                   provider, rp, documents, chunks>>

\* add_chunks, lines 41-58, and the end of upload_document
AddToCollection ==
    /\ up.phase = "Embed"
    /\ Len(up.embeddings) = Len(up.chunks)
    /\ \E o \in AddOutcomes(up.embeddings) :
          IF o = "raise"
          THEN /\ collection' = collection
               /\ up' = [up EXCEPT !.phase = "done",
                                   !.response = <<[status |-> 500,
                                                   message |-> "Internal server error"]>>]
          ELSE /\ collection' =
                     CollectionAdd(collection, up.embeddings,
                         [i \in 1..Len(up.chunks) |-> up.chunks[i].chunk_text],
                         [i \in 1..Len(up.chunks) |-> ChunkMetadata(up.chunks[i])],
                         [i \in 1..Len(up.chunks) |-> up.chunks[i].chunk_id])
               /\ up' = [up EXCEPT !.phase = "done",
                                   !.response = <<[status |-> 200,
                                                   message |-> "Document uploaded successfully"]>>]
    /\ UNCHANGED <<config, conversations, clock, pc, req, ps, ck,
                   provider, rp, documents, chunks>>

\* similarity_search(query, top_k) called on its own
Search ==
    /\ up.phase = "idle" /\ AskIdle
    /\ \E o \in EmbedOutcomes :
          LET query_embedding == GetEmbedding(<<"a">>, o)
          IN  IF query_embedding = <<>>
              THEN up' = [UpIdle(up.uploads) EXCEPT
                              !.phase = "done", !.kind = "search",
                              !.query_embedding = query_embedding,
                              !.response = <<[status |-> 200, message |-> "results"]>>]
              ELSE \E found \in {r \in SimilaritySearch(collection, <<"a">>, DEFAULT_TOP_K) :
                                    Len(r) = Min(DEFAULT_TOP_K, Len(collection))} :
                      up' = [UpIdle(up.uploads) EXCEPT
                                !.phase = "done", !.kind = "search",
                                !.query_embedding = query_embedding,
                                !.queried = TRUE, !.results = found,
                                !.response = <<[status |-> 200, message |-> "results"]>>]
    /\ UNCHANGED <<config, conversations, collection, clock, pc, req, ps, ck,
                   provider, rp, documents, chunks>>

\* clear_system is entered
Clear ==
    /\ up.phase = "idle" /\ AskIdle
    /\ up' = [UpIdle(up.uploads) EXCEPT !.phase = "DeleteDocuments", !.kind = "clear"]
    /\ UNCHANGED <<config, conversations, collection, clock, pc, req, ps, ck,
                   provider, rp, documents, chunks>>

\* except Exception of clear_system: the step raised
ClearFailed(step) ==
    [up EXCEPT !.phase = "done", !.failed = step,
               !.response = <<[status |-> 500, message |-> "Error clearing system"]>>]

\* a clearing step went through; the handler moves on
ClearStepDone(step, next) ==
    [up EXCEPT !.phase = next, !.wiped = @ \cup {step}]

\* clear_all_data: self.documents.delete_many({})
DeleteDocuments ==
    /\ up.phase = "DeleteDocuments"
    /\ \/ /\ documents' = <<>>
          /\ up' = ClearStepDone("documents", "DeleteChunks")
       \/ /\ documents' = documents
          /\ up' = ClearFailed("documents")
    /\ UNCHANGED <<config, conversations, collection, clock, pc, req, ps, ck,
                   provider, rp, chunks>>

\* clear_all_data: self.chunks.delete_many({})
DeleteChunks ==
    /\ up.phase = "DeleteChunks"
    /\ \/ /\ chunks' = <<>>
          /\ up' = ClearStepDone("chunks", "DeleteConversations")
       \/ /\ chunks' = chunks
          /\ up' = ClearFailed("chunks")
    /\ UNCHANGED <<config, conversations, collection, clock, pc, req, ps, ck,
                   provider, rp, documents>>

\* clear_all_data: self.conversations.delete_many({})
DeleteConversations ==
    /\ up.phase = "DeleteConversations"
    /\ \/ /\ conversations' = <<>>
          /\ up' = ClearStepDone("conversations", "ClearCollection")
       \/ /\ conversations' = conversations
          /\ up' = ClearFailed("conversations")
    /\ UNCHANGED <<config, collection, clock, pc, req, ps, ck,
                   provider, rp, documents, chunks>>

\* clear_collection (delete and recreate), then the success message
ClearCollection ==
    /\ up.phase = "ClearCollection"
    /\ \/ /\ collection' = <<>>
          /\ up' = [ClearStepDone("collection", "done") EXCEPT
                        !.response = <<[status |-> 200,
                                        message |-> "System cleared successfully"]>>]
       \/ /\ collection' = collection
          /\ up' = ClearFailed("collection")
    /\ UNCHANGED <<config, conversations, clock, pc, req, ps, ck,
                   provider, rp, documents, chunks>>

\* the response has gone out
StoreFinish ==
    /\ up.phase = "done"
    /\ up' = UpIdle(up.uploads)
    /\ UNCHANGED <<config, conversations, collection, clock, pc, req, ps, ck,
                   provider, rp, documents, chunks>>

InitStores ==
    /\ ParseOff
    /\ ChunkOff
    /\ ReplyOff
    /\ provider = {ContentOutcome(ANSWER_MARK \o <<" ", "y">>)}
    /\ config = DefaultConfig
    /\ conversations = <<>>
    /\ collection = <<>>
    /\ documents = <<>>
    /\ chunks = <<>>
    /\ clock = 0
    /\ pc = [p \in Procs |-> IF p = "w1" THEN "Idle" ELSE "Off"]
    /\ req = [p \in Procs |-> IF p = "w1" THEN ReqIdle ELSE [kind |-> "off"]]
    /\ up = UpIdle(0)

NextStores ==
    \/ Upload
    \/ Embed
    \/ AddToCollection
    \/ Search
    \/ Clear
    \/ DeleteDocuments
    \/ DeleteChunks
    \/ DeleteConversations
    \/ ClearCollection
    \/ StoreFinish
    \/ \E p \in Procs :
          /\ up.phase = "idle"
          /\ \/ Ask(p)
             \/ RetrieveHistory(p)
             \/ RetrieveEvidence(p)
             \/ BuildContext(p)
             \/ Generate(p)
             \/ ParseAndRespond(p)
             \/ PersistTurn(p)
             \/ Upsert(p)
             \/ Return(p)
             \/ Finish(p)

SpecStores == InitStores /\ [][NextStores]_vars

----------------------------------------------------------------------------
(* Properties of the stores.                                               *)

\* the ids of the vector index
IndexedIds == {collection[i].id : i \in 1..Len(collection)}

\* C14: when add_chunks has run, a chunk of the upload whose embedding call
\* failed is not in the vector index and every chunk of the upload whose
\* embedding call succeeded is; a search whose question could not be
\* embedded returns no results without querying the index and without an
\* error.
C14_FailedEmbeddingSkipped ==
    /\ (up.kind = "upload" /\ up.phase = "done") =>
          \A i \in 1..Len(up.chunks) :
              /\ up.embeddings[i] = <<>> => up.chunks[i].chunk_id \notin IndexedIds
              /\ up.embeddings[i] # <<>> => up.chunks[i].chunk_id \in IndexedIds
    /\ (up.kind = "search" /\ up.phase = "done" /\ up.query_embedding = <<>>) =>
          /\ up.results = <<>>
          /\ ~up.queried
          /\ up.response[1].status = 200

\* the stores that hold data
Holding ==
    {s \in {"documents", "chunks", "conversations", "collection"} :
        \/ s = "documents" /\ documents # <<>>
        \/ s = "chunks" /\ chunks # <<>>
        \/ s = "conversations" /\ conversations # <<>>
        \/ s = "collection" /\ collection # <<>>}

\* C15: when clear_system has ended, the success message means that the
\* four stores are empty; a failed clearing step means an error response;
\* and the call has not wiped some of the stores while others hold data.
C15_ClearAllOrNothing ==
    (up.kind = "clear" /\ up.phase = "done") =>
        /\ up.response[1].message = "System cleared successfully" =>
              /\ Holding = {}
              /\ up.wiped = {"documents", "chunks", "conversations", "collection"}
        /\ up.failed # "" =>
              /\ up.response[1].status = 500
              /\ up.response[1].message # "System cleared successfully"
        /\ ~(up.wiped # {} /\ Holding # {})

=============================================================================
